---- MODULE Spec2Model ----
(***************************************************************************)
(* Model of the Caristix HL7 scrapers:                                     *)
(*   scripts/scrape/scrapers/hl7_event_scraper.py      (CaristixScraper)   *)
(*   dev-tools/scripts/scrape/scrapers/hl7_component_scraper.py            *)
(*                                            (BaseCaristixScraper & co.)  *)
(* Four state machines share the variables below; each has its own         *)
(* specification:                                                          *)
(*   SpecDiscover  URL discovery on the listing page                       *)
(*   SpecFlatten   the flatten pass of expand_groups                       *)
(*   SpecExpand    the expansion loop of expand_groups                     *)
(*   SpecRun       the orchestrator run()                                  *)
(***************************************************************************)
EXTENDS Integers, Sequences, FiniteSets, TLC

VARIABLES
  (* ---- which scraper class is running ---- *)
  scraper,            \* "event" (CaristixScraper) or "component" (BaseCaristixScraper subclass)
  (* ---- the listing page (DOM of the site, input of discovery) ---- *)
  nItems,             \* number of item links of the listing
  dom_links,          \* the hrefs of the document's matching links, in DOM order
  itemHeight,         \* pixel height of one item of the virtual list
  clientHeight,       \* clientHeight of the viewport element
  renderBuffer,       \* items the virtual list keeps mounted beyond each viewport edge
  hasViewport,        \* whether '.cdk-virtual-scroll-viewport' is present
  docGrowth,          \* how many more times document.body.scrollHeight grows when scrolled
  docHeight,          \* document.body.scrollHeight
  (* ---- discovery: locals of collect_event_urls and helpers ---- *)
  dpc,                \* position in discovery
  load_attempts,      \* tenacity attempt number of collect_event_urls
  scroll_position,
  no_new_urls_count,
  all_urls,
  iterations,         \* scan-loop iterations executed
  bottom_passes,      \* final scroll-to-bottom passes executed
  last_height,
  scroll_attempts,
  fallback_used,      \* whether the whole-document fallback ran
  urls,               \* the list discovery returned
  (* ---- flatten pass: second half of expand_groups ---- *)
  hasCells,           \* whether the rows of the table hold cell elements
  rows,               \* the row elements of segment_elements consumed so far
  fpc,                \* "loop" while rows are processed, "done" after the return
  segments,
  source_rows,        \* for each emitted record, the index in rows it came from
  order_index,
  group_stack,
  stack_ref,          \* identity of the list object that group_stack names
  path_refs,          \* for each emitted record, identity of the list its group_path names
  (* ---- the tree table (DOM) seen by the expansion loop ---- *)
  nControls,          \* number of group controls (buttons) of the table
  nested,             \* TRUE: control c+1 sits inside group c; FALSE: all are siblings
  ariaAttr,           \* whether the buttons carry an aria-expanded attribute
  chevronTarget,      \* what a 'chevron_right' element contributes: "none", "button", "self"
  firstWorking,       \* per control: first click strategy that does not raise (0: none)
  sticky,             \* per control: its group shows as collapsed again after an activation
  open,               \* per control: whether its group is expanded now
  open_at_start,      \* open, as it was when expand_groups was called
  (* ---- expansion loop: first half of expand_groups ---- *)
  epc,                \* "scan", "buttons", "roundEnd", "done"
  attempt,
  expanded_count,
  any_expanded,
  expandables,        \* the elements of this round still to be handled
  click_attempts,     \* click strategies invoked so far (of any kind)
  last_tried,         \* strategies tried, in order, on the last handled element
  settles,            \* time.sleep calls made after a click that did not raise
  activated_open,     \* controls clicked, without raising, while their group was expanded
  (* ---- run(): the orchestrator ---- *)
  rpc,                \* "setup", "collect", "loop", "parse", "done", "raised"
  limit,              \* the limit argument; NoLimit stands for None
  processed_events,   \* codes already harvested (event scraper)
  driver,             \* "none", "open", "quit"
  item,               \* 1-based position in urls of the item being processed
  all_data,           \* the results accumulated, each [url, code]
  log,                \* log entries that name an item: [kind, code]
  navigated,          \* URLs driver.get was called on
  attempt_outcomes,   \* outcomes of the attempts made so far on the current item
  exhausted,          \* URLs whose table root never mounted in any attempt
  collected,          \* the list discovery returned, before the limit was applied
  fatal,              \* URLs whose driver.get raised a non-timeout browser error
  escaped,            \* the error that left run(), "none" if none did
  (* ---- _parse_segment_fields / _parse_datatype_components ---- *)
  table_rows,         \* the <tr> rows of the fields table consumed so far
  tpc,                \* "loop" while rows are processed, "done" after the return
  fields,
  field_position

dlocal == <<nItems, dom_links, itemHeight, clientHeight, renderBuffer, hasViewport,
           docGrowth, docHeight, dpc, load_attempts, scroll_position,
           no_new_urls_count, all_urls, iterations, bottom_passes, last_height,
           scroll_attempts, fallback_used>>

fvars == <<hasCells, rows, fpc, segments, source_rows, order_index, group_stack,
           stack_ref, path_refs>>

evars == <<nControls, nested, ariaAttr, chevronTarget, firstWorking, sticky, open,
           open_at_start, epc,
           attempt, expanded_count, any_expanded, expandables, click_attempts,
           last_tried, settles, activated_open>>

rvars == <<rpc, limit, processed_events, driver, item, all_data, log, navigated,
           attempt_outcomes, exhausted, collected, fatal, escaped>>

tvars == <<table_rows, tpc, fields, field_position>>

vars == <<scraper, dlocal, urls, fvars, evars, rvars, tvars>>

\* What each machine leaves alone.
notDiscover == <<fvars, evars, rvars, tvars>>
notFlatten == <<scraper, dlocal, urls, evars, rvars, tvars>>
notExpand == <<scraper, dlocal, urls, fvars, rvars, tvars>>
notRun == <<scraper, dlocal, fvars, evars, tvars>>
notFields == <<scraper, dlocal, urls, fvars, evars, rvars>>

(***************************************************************************)
(* Bounds of the model                                                     *)
(***************************************************************************)
MaxItems == 4
MaxItemHeight == 11
MaxClientHeight == 5
MaxRenderBuffer == 1
MaxDocGrowth == 21
MaxRows == 5
MaxLevel == 2
MaxControls == 2
MaxUrls == 3
MaxLimit == 2
MaxResumed == 1
MaxFieldRows == 4
MaxLinks == 3

(***************************************************************************)
(* Program constants                                                       *)
(***************************************************************************)
StopAfterAttempt == 3          \* tenacity stop_after_attempt(3)
StagnationLimit == 5           \* "no_new_urls_count < 5"
max_scrolls == 20              \* fallback scroll bound
max_attempts == 15             \* rounds of the expansion loop

Scrapers == {"event", "component"}

Max(a, b) == IF a >= b THEN a ELSE b
Min(a, b) == IF a <= b THEN a ELSE b

(***************************************************************************)
(* sorted(list(S)) for a finite set of integers (URLs are numbered in      *)
(* their lexicographic order, item i has URL number i).                    *)
(***************************************************************************)
RECURSIVE SortedSeq(_)
SortedSeq(S) ==
  IF S = {} THEN <<>>
  ELSE LET m == CHOOSE x \in S : \A y \in S : x <= y
       IN <<m>> \o SortedSeq(S \ {m})

(***************************************************************************)
(* Geometry of the virtual list                                            *)
(***************************************************************************)
scroll_height == nItems * itemHeight
scroll_step_twice == clientHeight * 2
scroll_step == clientHeight \div 2
max_position == scroll_height - clientHeight

\* The browser clamps an assigned scrollTop to [0, scrollHeight - clientHeight].
ClampTop(p) == Max(0, Min(p, max_position))

\* Items the virtual list has mounted when scrollTop was set to p: those that
\* intersect the viewport, plus renderBuffer items on each side.
Mounted(p) ==
  LET top == ClampTop(p)
      lo == top - renderBuffer * itemHeight
      hi == top + clientHeight + renderBuffer * itemHeight
  IN {i \in 1..nItems : (i - 1) * itemHeight < hi /\ i * itemHeight > lo}

\* Whether an 'except TimeoutException' clause of the scraper's module can
\* catch the exception: the event scraper imports the name, the component
\* scraper's module does not (evaluating the clause raises NameError).
TimeoutExceptionImported(s) == s = "event"

(***************************************************************************)
(* URL discovery                                                           *)
(***************************************************************************)
DiscoverIdle ==
  /\ nItems = 0
  /\ dom_links = <<>>
  /\ itemHeight = 1
  /\ clientHeight = 1
  /\ renderBuffer = 0
  /\ hasViewport = FALSE
  /\ docGrowth = 0
  /\ docHeight = 1
  /\ dpc = "idle"
  /\ load_attempts = 0
  /\ scroll_position = 0
  /\ no_new_urls_count = 0
  /\ all_urls = {}
  /\ iterations = 0
  /\ bottom_passes = 0
  /\ last_height = 0
  /\ scroll_attempts = 0
  /\ fallback_used = FALSE
  /\ urls = <<>>

FlattenIdle ==
  /\ hasCells = FALSE
  /\ rows = <<>>
  /\ fpc = "idle"
  /\ segments = <<>>
  /\ source_rows = <<>>
  /\ order_index = 0
  /\ group_stack = <<>>
  /\ stack_ref = 0
  /\ path_refs = <<>>

ExpandIdle ==
  /\ nControls = 0
  /\ nested = FALSE
  /\ ariaAttr = FALSE
  /\ chevronTarget = "none"
  /\ firstWorking = <<>>
  /\ sticky = <<>>
  /\ open = <<>>
  /\ open_at_start = <<>>
  /\ epc = "idle"
  /\ attempt = 0
  /\ expanded_count = 0
  /\ any_expanded = FALSE
  /\ expandables = <<>>
  /\ click_attempts = 0
  /\ last_tried = <<>>
  /\ settles = 0
  /\ activated_open = {}

RunIdle ==
  /\ rpc = "idle"
  /\ limit = 0
  /\ processed_events = {}
  /\ driver = "none"
  /\ item = 0
  /\ all_data = <<>>
  /\ log = {}
  /\ navigated = {}
  /\ attempt_outcomes = <<>>
  /\ exhausted = {}
  /\ collected = <<>>
  /\ fatal = {}
  /\ escaped = "none"

\* The listing of the scenario of the specification: 20 items in a container
\* with clientHeight 500 and scrollHeight 5000.
Scenario == [nItems |-> 20, itemHeight |-> 250, clientHeight |-> 500]

\* The listings the model is run on: every small one, and the scenario.
Geometries ==
  { [nItems |-> n, itemHeight |-> h, clientHeight |-> c] :
      n \in 0..MaxItems, h \in 1..MaxItemHeight, c \in 1..MaxClientHeight }
    \cup {Scenario}

FieldsIdle ==
  /\ table_rows = <<>>
  /\ tpc = "idle"
  /\ fields = <<>>
  /\ field_position = 1

InitDiscover ==
  /\ FlattenIdle
  /\ ExpandIdle
  /\ RunIdle
  /\ FieldsIdle
  /\ scraper \in Scrapers
  /\ \E g \in Geometries :
       /\ nItems = g.nItems
       /\ itemHeight = g.itemHeight
       /\ clientHeight = g.clientHeight
  /\ dom_links = SortedSeq(1..nItems)
  /\ renderBuffer \in 0..MaxRenderBuffer
  /\ hasViewport \in BOOLEAN
  /\ docGrowth \in {0, 1, MaxDocGrowth}
  /\ docHeight = 1 + nItems * itemHeight
  /\ dpc = "load"
  /\ load_attempts = 0
  /\ scroll_position = 0
  /\ no_new_urls_count = 0
  /\ all_urls = {}
  /\ iterations = 0
  /\ bottom_passes = 0
  /\ last_height = 0
  /\ scroll_attempts = 0
  /\ fallback_used = FALSE
  /\ urls = <<>>

\* driver.get(listing) and the wait for the first matching links.  With no
\* matching link the wait times out; the event scraper's tenacity decorator
\* retries up to 3 attempts and then raises RetryError, the component scraper's
\* outer 'except Exception' returns [].
LoadListing ==
  /\ dpc = "load"
  /\ load_attempts' = load_attempts + 1
  /\ IF nItems > 0
       THEN dpc' = "viewport"
       ELSE IF scraper = "event"
              THEN dpc' = IF load_attempts + 1 < StopAfterAttempt THEN "load" ELSE "raised"
              ELSE dpc' = "returned"
  /\ UNCHANGED <<scraper, nItems, dom_links, itemHeight, clientHeight, renderBuffer, hasViewport,
                 docGrowth, docHeight, scroll_position, no_new_urls_count, all_urls,
                 iterations, bottom_passes, last_height, scroll_attempts,
                 fallback_used, urls>>
  /\ UNCHANGED notDiscover

\* The wait for '.cdk-virtual-scroll-viewport'.
LocateViewport ==
  /\ dpc = "viewport"
  /\ IF hasViewport
       THEN dpc' = "scan"
       ELSE IF TimeoutExceptionImported(scraper)
              THEN dpc' = "fallback"
              ELSE dpc' = "returned"      \* NameError, caught by the outer except: return []
  /\ scroll_position' = 0
  /\ no_new_urls_count' = 0
  /\ all_urls' = {}
  /\ last_height' = 0
  /\ scroll_attempts' = 0
  /\ UNCHANGED <<scraper, nItems, dom_links, itemHeight, clientHeight, renderBuffer, hasViewport,
                 docGrowth, docHeight, load_attempts, iterations, bottom_passes,
                 fallback_used, urls>>
  /\ UNCHANGED notDiscover

ScanCondition_PastEnd ==
  scroll_position <= scroll_height /\ no_new_urls_count < StagnationLimit
ScanCondition_NoStagnation == scroll_position <= max_position
ScanCondition == scroll_position <= max_position /\ no_new_urls_count < StagnationLimit

\* One iteration of the scan loop.
ScanStep ==
  /\ dpc = "scan"
  /\ ScanCondition
  /\ LET valid_urls == Mounted(scroll_position)
         previous_count == Cardinality(all_urls)
         updated == all_urls \cup valid_urls
     IN /\ all_urls' = updated
        /\ no_new_urls_count' = IF Cardinality(updated) = previous_count
                                  THEN no_new_urls_count + 1 ELSE 0
  /\ scroll_position' = scroll_position + scroll_step
  /\ iterations' = iterations + 1
  /\ UNCHANGED <<scraper, nItems, dom_links, itemHeight, clientHeight, renderBuffer, hasViewport,
                 docGrowth, docHeight, dpc, load_attempts, bottom_passes, last_height,
                 scroll_attempts, fallback_used, urls>>
  /\ UNCHANGED notDiscover

\* The links found after 'scrollTop = scrollHeight'.
final_valid_skipped == {}
final_valid == Mounted(scroll_height)

\* Loop exit: the final scroll to the absolute bottom, then sorted(list(all_urls)).
FinalPass ==
  /\ dpc = "scan"
  /\ ~ScanCondition
  /\ all_urls' = all_urls \cup final_valid
  /\ urls' = SortedSeq(all_urls \cup final_valid)
  /\ bottom_passes' = bottom_passes + 1
  /\ dpc' = "returned"
  /\ UNCHANGED <<scraper, nItems, dom_links, itemHeight, clientHeight, renderBuffer, hasViewport,
                 docGrowth, docHeight, load_attempts, scroll_position,
                 no_new_urls_count, iterations, last_height, scroll_attempts,
                 fallback_used>>
  /\ UNCHANGED notDiscover

\* One iteration of the whole-document scroll loop of the fallback.
FallbackScroll ==
  /\ dpc = "fallback"
  /\ scroll_attempts < max_scrolls
  /\ LET new_height == IF docGrowth > 0 THEN docHeight + 1 ELSE docHeight
     IN /\ docHeight' = new_height
        /\ docGrowth' = IF docGrowth > 0 THEN docGrowth - 1 ELSE 0
        /\ IF new_height = last_height
             THEN /\ dpc' = "collect"
                  /\ UNCHANGED <<last_height, scroll_attempts>>
             ELSE /\ last_height' = new_height
                  /\ scroll_attempts' = scroll_attempts + 1
                  /\ dpc' = IF scroll_attempts + 1 < max_scrolls THEN "fallback" ELSE "collect"
  /\ UNCHANGED <<scraper, nItems, dom_links, itemHeight, clientHeight, renderBuffer, hasViewport,
                 load_attempts, scroll_position, no_new_urls_count, all_urls,
                 iterations, bottom_passes, fallback_used, urls>>
  /\ UNCHANGED notDiscover

\* href of the links, first occurrences in DOM order:
\*   if href and url_pattern in href and href not in urls: urls.append(href)
RECURSIVE Dedup(_)
Dedup(q) ==
  IF q = <<>> THEN <<>>
  ELSE LET front == Dedup(SubSeq(q, 1, Len(q) - 1))
           x == q[Len(q)]
       IN IF \E k \in 1..Len(front) : front[k] = x THEN front ELSE Append(front, x)

\* What the whole-document fallback returns for the links of the document:
\* _fallback_collect_urls returns sorted(set(urls)), _collect_urls_standard
\* returns the list it appended to.
FallbackResult(s, links) ==
  IF s = "event" THEN SortedSeq({links[k] : k \in 1..Len(links)}) ELSE Dedup(links)

\* After the loop: every link of the document is collected.
FallbackCollect ==
  /\ dpc = "collect"
  /\ urls' = FallbackResult(scraper, dom_links)
  /\ fallback_used' = TRUE
  /\ dpc' = "returned"
  /\ UNCHANGED <<scraper, nItems, dom_links, itemHeight, clientHeight, renderBuffer, hasViewport,
                 docGrowth, docHeight, load_attempts, scroll_position,
                 no_new_urls_count, all_urls, iterations, bottom_passes, last_height,
                 scroll_attempts>>
  /\ UNCHANGED notDiscover

NextDiscover ==
  \/ LoadListing
  \/ LocateViewport
  \/ ScanStep
  \/ FinalPass
  \/ FallbackScroll
  \/ FallbackCollect

SpecDiscover == InitDiscover /\ [][NextDiscover]_vars

(***************************************************************************)
(* The whole-document fallback called on its own                           *)
(* (_fallback_collect_urls, _collect_urls_standard), on a document whose   *)
(* matching links come in any DOM order, repeated hrefs included.          *)
(***************************************************************************)
LinkLists ==
  UNION { [1..n -> 1..MaxLinks] : n \in 0..MaxLinks }

InitStandard ==
  /\ FlattenIdle
  /\ ExpandIdle
  /\ RunIdle
  /\ FieldsIdle
  /\ scraper \in Scrapers
  /\ dom_links \in LinkLists
  /\ nItems = Cardinality({dom_links[k] : k \in 1..Len(dom_links)})
  /\ itemHeight = 1
  /\ clientHeight = 1
  /\ renderBuffer = 0
  /\ hasViewport = FALSE
  /\ docGrowth \in {0, 1, MaxDocGrowth}
  /\ docHeight = 1 + nItems
  /\ dpc = "fallback"
  /\ load_attempts = 0
  /\ scroll_position = 0
  /\ no_new_urls_count = 0
  /\ all_urls = {}
  /\ iterations = 0
  /\ bottom_passes = 0
  /\ last_height = 0
  /\ scroll_attempts = 0
  /\ fallback_used = FALSE
  /\ urls = <<>>

NextStandard == FallbackScroll \/ FallbackCollect

SpecStandard == InitStandard /\ [][NextStandard]_vars

(***************************************************************************)
(* The viewport scan called on its own (the loop of collect_event_urls     *)
(* after the viewport was found, _collect_urls_with_virtual_scroll), on a  *)
(* container of any geometry, a clientHeight of 0 included.                *)
(***************************************************************************)
ScanGeometries ==
  { [nItems |-> n, itemHeight |-> h, clientHeight |-> c] :
      n \in 0..MaxItems, h \in 1..MaxItemHeight, c \in 0..MaxClientHeight }

InitScan ==
  /\ FlattenIdle
  /\ ExpandIdle
  /\ RunIdle
  /\ FieldsIdle
  /\ scraper \in Scrapers
  /\ \E g \in ScanGeometries :
       /\ nItems = g.nItems
       /\ itemHeight = g.itemHeight
       /\ clientHeight = g.clientHeight
  /\ dom_links = SortedSeq(1..nItems)
  /\ renderBuffer \in 0..MaxRenderBuffer
  /\ hasViewport = TRUE
  /\ docGrowth = 0
  /\ docHeight = 1 + nItems * itemHeight
  /\ dpc = "scan"
  /\ load_attempts = 1
  /\ scroll_position = 0
  /\ no_new_urls_count = 0
  /\ all_urls = {}
  /\ iterations = 0
  /\ bottom_passes = 0
  /\ last_height = 0
  /\ scroll_attempts = 0
  /\ fallback_used = FALSE
  /\ urls = <<>>

NextScan == ScanStep \/ FinalPass

\* The loop is sequential code: a step that can be taken is taken.
SpecScanLive == InitScan /\ [][NextScan]_vars /\ WF_vars(NextScan)

(***************************************************************************)
(* The flatten pass (second pass of expand_groups)                         *)
(*                                                                         *)
(* A row element is [glyph, label, pad]: the text of its icon (if any),    *)
(* the text of its label and its padding-left in pixels.  The description, *)
(* optionality and repeatability columns are not modelled: no record field *)
(* the hierarchy depends on is read from them.                             *)
(***************************************************************************)
UiGlyphs == {"chevron_right", "expand_more", "expand_less"}
HeaderWords == {"SEGMENT", "OPTIONALITY", "REPEATABILITY"}
IndentUnit == 16

\* The (glyph, label) pairs of the rows of a table.
RowTexts ==
  { <<"", "">>,                        \* blank row
    <<"chevron_right", "">>,           \* only the affordance glyph
    <<"", "Segment">>,                 \* column header row
    <<"", "MSH">>,                     \* leaf segment
    <<"", "QUERY">>,                   \* leaf whose code is long and upper-case
    <<"expand_more", "PATIENT">>,      \* expanded group header
    <<"expand_more", "INSURANCE">> }   \* expanded group header

\* row_element.text.strip(): the icon text and the label on separate lines.
RowText(r) ==
  IF r.glyph = "" THEN r.label
  ELSE IF r.label = "" THEN r.glyph
  ELSE r.glyph \o "\n" \o r.label

\* full_text.split('\n'), stripped lines.
RowLines(r) ==
  IF r.glyph = "" THEN <<r.label>>
  ELSE IF r.label = "" THEN <<r.glyph>>
  ELSE <<r.glyph, r.label>>

\* str.upper() and str.isupper() on the texts of the model.
Upper(t) == IF t = "Segment" THEN "SEGMENT" ELSE t
IsUpper(t) == t \in {"MSH", "QUERY", "PATIENT", "INSURANCE", "SEGMENT"}

\* str.startswith(tuple of three-letter codes)
Head3(t) ==
  CASE t = "MSH" -> "MSH"
    [] t = "QUERY" -> "QUE"
    [] t = "PATIENT" -> "PAT"
    [] t = "INSURANCE" -> "INS"
    [] t = "Segment" -> "Seg"
    [] OTHER -> ""
StartsWithAny(t, prefixes) == Head3(t) \in prefixes

CellPathLeafPrefixes == {"MSH", "PID", "EVN"}
TextPathLeafPrefixes ==
  {"MSH", "EVN", "PID", "PV1", "NK1", "OBX", "ORC", "OBR", "RXE", "RXR", "RXA", "RXC"}

None == [none |-> TRUE]

Record_RowIndexed(code, grp, path, lvl, idx) ==
  [segment_code |-> code, is_group |-> grp, group_path |-> path,
   level |-> lvl, order_index |-> Len(rows)]
Record(code, grp, path, lvl, idx) ==
  [segment_code |-> code, is_group |-> grp, group_path |-> path,
   level |-> lvl, order_index |-> idx]

Prefix(q, n) == SubSeq(q, 1, Min(n, Len(q)))

\* _detect_hierarchy_level: (hierarchy_level, the stack trimmed to that level)
HierarchyLevel(r) == r.pad \div IndentUnit
TrimmedStack(r, stack) ==
  IF HierarchyLevel(r) < Len(stack) THEN Prefix(stack, HierarchyLevel(r)) ELSE stack

\* _parse_row_text
FirstNonGlyphLine(lines) ==
  LET idx == {i \in 1..Len(lines) : lines[i] # "" /\ lines[i] \notin UiGlyphs}
  IN IF idx = {} THEN "" ELSE lines[CHOOSE i \in idx : \A j \in idx : i <= j]

ParseRowText(r, idx, stack) ==
  LET full_text == RowText(r)
      lines == RowLines(r)
      hierarchy_level == HierarchyLevel(r)
      current_group_stack == TrimmedStack(r, stack)
      seg_code == lines[1]
  IN IF full_text = "" THEN None
     ELSE IF r.glyph \in {"chevron_right", "expand_more"}
       THEN IF FirstNonGlyphLine(lines) = "" THEN None
            ELSE Record(FirstNonGlyphLine(lines), TRUE, current_group_stack,
                        hierarchy_level, idx)
     ELSE IF Upper(full_text) \in HeaderWords THEN None
     ELSE IF seg_code = "" \/ Len(seg_code) < 2 \/ seg_code \in UiGlyphs THEN None
     ELSE Record(seg_code,
                 IsUpper(seg_code) /\ Len(seg_code) > 3
                   /\ ~StartsWithAny(seg_code, TextPathLeafPrefixes),
                 current_group_stack, hierarchy_level, idx)

\* _extract_segment_from_row
ExtractSegmentFromRow(r, idx, stack) ==
  IF ~hasCells THEN ParseRowText(r, idx, stack)
  ELSE LET seg_code == RowText(r)       \* text of the first cell
           level == Len(stack)
       IN IF seg_code \in UiGlyphs \cup {""} THEN None
          ELSE IF Len(seg_code) < 2 THEN None
          ELSE Record(seg_code,
                      IsUpper(seg_code) /\ Len(seg_code) > 3
                        /\ ~StartsWithAny(seg_code, CellPathLeafPrefixes),
                      stack, level, idx)

\* The update of group_stack after a group record was appended.
PushGroup_Skipped(stack, rec) == stack
PushGroup(stack, rec) ==
  Append(IF rec.level < Len(stack) THEN Prefix(stack, rec.level) ELSE stack,
         rec.segment_code)

\* Python lists are objects: a slice and a copy() create a new list, append
\* changes a list in place and is seen through every reference to it.  List
\* objects are numbered: 0 is the list 'group_stack = []' creates, and the
\* lists created while row i is processed are NewList(i, site) for the three
\* creating sites (1: the slice of _detect_hierarchy_level, 2: the copy() in
\* the returned dict, 3: the slice of the stack update).
NewList(i, site) == 3 * i + site - 1

\* "group_path": <list>.copy() -- the record names the new list, not src.
Shared(src, fresh) == src
Snapshot(src, fresh) == fresh

\* The list a row's parser hands to the record: group_stack itself on the
\* cell path; on the row-text path what _detect_hierarchy_level returns, the
\* slice if it trimmed and the caller's list otherwise.
PathSource(r, i) ==
  IF ~hasCells /\ HierarchyLevel(r) < Len(group_stack) THEN NewList(i, 1) ELSE stack_ref

\* The list the stack update appends to: the new slice if it trimmed.
PushTarget(rec, i) ==
  IF rec.level < Len(group_stack) THEN NewList(i, 3) ELSE stack_ref

\* <target>.append(code), as seen through the group_path of the records.
AppendInPlace(segs, refs, target, code) ==
  [k \in 1..Len(segs) |->
     IF refs[k] = target
       THEN [segs[k] EXCEPT !.group_path = Append(@, code)]
       ELSE segs[k]]

\* The DOM's own nesting: a row is a group header when it shows the icon of an
\* expanded group, and rows nested in it follow with one more indent unit.
IsDomHeader(r) == r.glyph = "expand_more" /\ r.label # ""
IsSkippable(r) == r.label \in {"", "Segment"}
DomLevel(r) == r.pad \div IndentUnit

\* The deepest level the next row of the table may have.
RECURSIVE OpenDepth(_)
OpenDepth(rs) ==
  IF rs = <<>> THEN 0
  ELSE LET r == rs[Len(rs)]
       IN IF IsSkippable(r) THEN OpenDepth(Prefix(rs, Len(rs) - 1))
          ELSE IF IsDomHeader(r) THEN DomLevel(r) + 1 ELSE DomLevel(r)

NextRows ==
  { [glyph |-> t[1], label |-> t[2], pad |-> IndentUnit * l] :
      t \in RowTexts, l \in 0..Min(MaxLevel, OpenDepth(rows)) }

InitFlatten ==
  /\ scraper = "event"
  /\ DiscoverIdle
  /\ ExpandIdle
  /\ RunIdle
  /\ FieldsIdle
  /\ hasCells \in BOOLEAN
  /\ rows = <<>>
  /\ fpc = "loop"
  /\ segments = <<>>
  /\ source_rows = <<>>
  /\ order_index = 0
  /\ group_stack = <<>>
  /\ stack_ref = 0
  /\ path_refs = <<>>

\* One iteration of 'for segment_elem in segment_elements'.
FlattenRow ==
  /\ fpc = "loop"
  /\ Len(rows) < MaxRows
  /\ \E r \in NextRows :
       LET segment_data == ExtractSegmentFromRow(r, order_index, group_stack)
           i == Len(rows) + 1
           refs == Append(path_refs, Snapshot(PathSource(r, i), NewList(i, 2)))
       IN /\ (IsSkippable(r) => r.pad = 0)
          /\ (IsDomHeader(r) => DomLevel(r) < MaxLevel)
          /\ rows' = Append(rows, r)
          /\ IF segment_data = None
               THEN UNCHANGED <<segments, source_rows, order_index, group_stack,
                                stack_ref, path_refs>>
               ELSE /\ source_rows' = Append(source_rows, i)
                    /\ order_index' = order_index + 1
                    /\ path_refs' = refs
                    /\ IF segment_data.is_group
                         THEN /\ group_stack' = PushGroup(group_stack, segment_data)
                              /\ stack_ref' = PushTarget(segment_data, i)
                              /\ segments' = AppendInPlace(Append(segments, segment_data), refs,
                                                           PushTarget(segment_data, i),
                                                           segment_data.segment_code)
                         ELSE /\ segments' = Append(segments, segment_data)
                              /\ UNCHANGED <<group_stack, stack_ref>>
  /\ UNCHANGED <<hasCells, fpc>>
  /\ UNCHANGED notFlatten

\* The row list is exhausted: return segments.
FlattenReturn ==
  /\ fpc = "loop"
  /\ fpc' = "done"
  /\ UNCHANGED <<hasCells, rows, segments, source_rows, order_index, group_stack,
                 stack_ref, path_refs>>
  /\ UNCHANGED notFlatten

NextFlatten == FlattenRow \/ FlattenReturn

SpecFlatten == InitFlatten /\ [][NextFlatten]_vars

(***************************************************************************)
(* The expansion loop (first pass of expand_groups)                        *)
(*                                                                         *)
(* An element handle is [ctl, kind]: the group control it belongs to and   *)
(* whether it is the control's button or the element that shows the        *)
(* 'chevron_right' text.  A click that does not raise toggles the group.   *)
(***************************************************************************)
Controls == 1..nControls

\* A control is in the DOM when every group around it is expanded.
Visible(o, c) == nested => \A a \in 1..(c - 1) : o[a]

VisibleControls(o) == {c \in Controls : Visible(o, c)}

\* Elements for a set of controls, in DOM order.
ElementsOf(S, kind) == [i \in 1..Cardinality(S) |-> [ctl |-> SortedSeq(S)[i], kind |-> kind]]

\* The selector cascade: the first selector with a match wins.
\*   "button[aria-expanded='false']", then (without regard to state)
\*   ".tree-table-cell-content-with-button button", ..., "button".
CascadeMatch(o) ==
  LET closed == {c \in VisibleControls(o) : ariaAttr /\ ~o[c]}
  IN IF closed # {} THEN ElementsOf(closed, "button")
     ELSE ElementsOf(VisibleControls(o), "button")

\* Elements whose text contains 'chevron_right': the icons of collapsed groups.
ChevronControls(o) == {c \in VisibleControls(o) : ~o[c]}

\* What the scan of the chevron rows appends to expandables.
ChevronExtension(o) ==
  IF chevronTarget = "button" THEN ElementsOf(ChevronControls(o), "button")
  ELSE IF chevronTarget = "self" THEN ElementsOf(ChevronControls(o), "icon")
  ELSE <<>>

\* button.get_attribute("aria-expanded")
AriaExpanded(o, el) ==
  IF el.kind = "button" /\ ariaAttr
    THEN (IF o[el.ctl] THEN "true" ELSE "false")
    ELSE "None"

\* Strategy j raises on control c.
Raises(c, j) == firstWorking[c] = 0 \/ j < firstWorking[c]

\* The strategies tried on a control, in order: direct click (1), JavaScript
\* click (2), ActionChains click (3); each is tried only if the ones before
\* raised.
StrategiesTried_All(c) == <<1, 2, 3>>
StrategiesTried(c) ==
  IF firstWorking[c] = 0 THEN <<1, 2, 3>> ELSE [i \in 1..firstWorking[c] |-> i]
ClickSucceeds(c) == firstWorking[c] # 0
JsClickSucceeds(c) == firstWorking[c] \in {1, 2}

\* The effect of a click that did not raise: the group toggles, unless the
\* control is one whose group collapses again right after the activation.
Toggle(o, c) == [o EXCEPT ![c] = IF sticky[c] THEN FALSE ELSE ~o[c]]

\* while attempt < max_attempts
RoundAlwaysAllowed(a) == TRUE
RoundAllowed(a) == a < max_attempts

\* Whether the loop over expandables clicks this element: its handle is
\* still attached and aria-expanded is not "true".
ShouldClick(o, el) == Visible(o, el.ctl) /\ AriaExpanded(o, el) # "true"

InitExpand ==
  /\ scraper = "event"
  /\ DiscoverIdle
  /\ FlattenIdle
  /\ RunIdle
  /\ FieldsIdle
  /\ nControls \in 1..MaxControls
  /\ nested \in BOOLEAN
  /\ ariaAttr \in BOOLEAN
  /\ chevronTarget \in {"none", "button", "self"}
  /\ firstWorking \in [1..nControls -> 0..3]
  /\ sticky \in [1..nControls -> BOOLEAN]
  /\ \A c \in 1..nControls : sticky[c] => firstWorking[c] # 0
  /\ open \in [1..nControls -> BOOLEAN]
  /\ open_at_start = open
  /\ epc = "scan"
  /\ attempt = 0
  /\ expanded_count = 0
  /\ any_expanded = FALSE
  /\ expandables = <<>>
  /\ click_attempts = 0
  /\ last_tried = <<>>
  /\ settles = 0
  /\ activated_open = {}

\* Head of a round: the queries that build expandables.
ExpandScan ==
  /\ epc = "scan"
  /\ IF RoundAllowed(attempt)
       THEN /\ expandables' = CascadeMatch(open) \o ChevronExtension(open)
            /\ any_expanded' = FALSE
            /\ epc' = "buttons"
       ELSE /\ epc' = "done"
            /\ UNCHANGED <<expandables, any_expanded>>
  /\ UNCHANGED <<nControls, nested, ariaAttr, chevronTarget, firstWorking, sticky, open_at_start, open,
                 attempt, expanded_count, click_attempts, last_tried, settles,
                 activated_open>>
  /\ UNCHANGED notExpand

\* One iteration of 'for button in expandables'.
ExpandButton ==
  /\ epc = "buttons"
  /\ expandables # <<>>
  /\ LET el == Head(expandables)
         c == el.ctl
     IN IF ShouldClick(open, el)
          THEN /\ last_tried' = StrategiesTried(c)
               /\ click_attempts' = click_attempts + Len(StrategiesTried(c))
               /\ IF ClickSucceeds(c)
                    THEN /\ open' = Toggle(open, c)
                         /\ expanded_count' = expanded_count + 1
                         /\ any_expanded' = TRUE
                         /\ settles' = settles + 1
                         /\ activated_open' = IF open[c] THEN activated_open \cup {c}
                                                         ELSE activated_open
                    ELSE UNCHANGED <<open, expanded_count, any_expanded, settles,
                                     activated_open>>
          ELSE /\ last_tried' = <<>>
               /\ UNCHANGED <<open, expanded_count, any_expanded, click_attempts,
                              settles, activated_open>>
  /\ expandables' = Tail(expandables)
  /\ UNCHANGED <<nControls, nested, ariaAttr, chevronTarget, firstWorking, sticky, open_at_start, epc, attempt>>
  /\ UNCHANGED notExpand

\* JavaScript clicks, one after the other, on the controls of S in DOM order;
\* a click that raises is swallowed.
RECURSIVE JsClickAll(_, _)
JsClickAll(o, q) ==
  IF q = <<>> THEN o
  ELSE JsClickAll(IF JsClickSucceeds(Head(q)) THEN Toggle(o, Head(q)) ELSE o, Tail(q))

\* The controls of q that such a pass clicks while their group is expanded.
RECURSIVE JsClickedOpen(_, _)
JsClickedOpen(o, q) ==
  IF q = <<>> THEN {}
  ELSE IF JsClickSucceeds(Head(q))
         THEN (IF o[Head(q)] THEN {Head(q)} ELSE {})
              \cup JsClickedOpen(Toggle(o, Head(q)), Tail(q))
         ELSE JsClickedOpen(o, Tail(q))

FirstN(q, n) == SubSeq(q, 1, Min(n, Len(q)))

\* End of a round: with nothing clicked and chevrons remaining, the
\* alternative clicks on the first 3 chevron elements and the last-resort
\* clicks on the first 5 button-like elements; then break or next round.
ExpandRoundEnd ==
  /\ epc = "buttons"
  /\ expandables = <<>>
  /\ LET remaining_chevrons == SortedSeq(ChevronControls(open))
         alt == FirstN(remaining_chevrons, 3)
         afterAlt == JsClickAll(open, alt)
         all_clickables == FirstN(SortedSeq(VisibleControls(afterAlt)), 5)
         afterLast == JsClickAll(afterAlt, all_clickables)
         succ == Cardinality({i \in 1..Len(alt) : JsClickSucceeds(alt[i])})
                 + Cardinality({i \in 1..Len(all_clickables) :
                                  JsClickSucceeds(all_clickables[i])})
         tryAlt == ~any_expanded /\ remaining_chevrons # <<>>
         expandedNow == any_expanded \/ (tryAlt /\ succ > 0)
     IN /\ open' = IF tryAlt THEN afterLast ELSE open
        /\ click_attempts' = IF tryAlt
                               THEN click_attempts + Len(alt) + Len(all_clickables)
                               ELSE click_attempts
        /\ expanded_count' = IF tryAlt THEN expanded_count + succ ELSE expanded_count
        /\ settles' = IF tryAlt THEN settles + succ ELSE settles
        /\ activated_open' = IF tryAlt
                               THEN activated_open \cup JsClickedOpen(open, alt)
                                    \cup JsClickedOpen(afterAlt, all_clickables)
                               ELSE activated_open
        /\ any_expanded' = expandedNow
        /\ IF expandedNow
             THEN /\ attempt' = attempt + 1
                  /\ epc' = "scan"
             ELSE /\ epc' = "done"
                  /\ UNCHANGED attempt
  /\ UNCHANGED <<nControls, nested, ariaAttr, chevronTarget, firstWorking, sticky, open_at_start,
                 expandables, last_tried>>
  /\ UNCHANGED notExpand

NextExpand == ExpandScan \/ ExpandButton \/ ExpandRoundEnd

SpecExpand == InitExpand /\ [][NextExpand]_vars

\* expand_groups is sequential code: a step that can be taken is taken.
SpecExpandLive == SpecExpand /\ WF_vars(NextExpand)

(***************************************************************************)
(* run(): the orchestrator                                                 *)
(*                                                                         *)
(* URLs are numbered in their sort order.  URL 2k-1 and URL 2k name the    *)
(* same item code k (the second with a trailing slash), since              *)
(* code = url.rstrip('/').split('/')[-1].                                  *)
(***************************************************************************)
NoLimit == -1
CodeOf(u) == (u + 1) \div 2

\* What one attempt of the per-item step can end with:
\*   "result"      a page dictionary was returned and saved
\*   "save_error"  a page dictionary was returned and saving it raised
\*   "none"        the step returned None (it caught and logged its failure)
\*   "timeout"     TimeoutException left the step (the table root did not mount)
\*   "error"       another exception left the step
\*   "nav_error"   driver.get(url) raised a non-timeout browser error
\* parse_item_page of the component scraper catches every exception itself
\* (a navigation error included) and returns None.
AttemptOutcomes(s) ==
  IF s = "event" THEN {"result", "save_error", "none", "timeout", "error", "nav_error"}
  ELSE {"result", "save_error", "none", "nav_error"}

\* What the listing wait or the scan of discovery can raise.
DiscoveryErrors == {"wait_timeout", "stale_element"}

\* A log call that names an item: logger.info("Skipping {code} ..."),
\* logger.error("Failed to process {code}: ..."), and the error logs of the
\* per-item step before it returns None.
LogDropped(lg, kind, code) == lg
LogItem(lg, kind, code) == lg \cup {[kind |-> kind, code |-> code]}

\* The retry policy around the per-item step: tenacity on parse_event_page
\* (stop_after_attempt(3), retry_if_exception_type(TimeoutException)); none on
\* parse_item_page.
RetryAnyException(s, outcome, made) ==
  s = "event" /\ outcome \in {"timeout", "error"} /\ made < StopAfterAttempt
ShouldRetry(s, outcome, made) ==
  s = "event" /\ outcome = "timeout" /\ made < StopAfterAttempt

\* urls[:limit] under 'if limit:'
Truncate(q, lim) ==
  IF lim = NoLimit \/ lim = 0 THEN q ELSE SubSeq(q, 1, Min(lim, Len(q)))

\* all_data.append(event_data)
PrependResult(data, r) == <<r>> \o data
AppendResult(data, r) == Append(data, r)

\* Where run() goes after an exception left the per-item step: the
\* 'except Exception' of the item loop logs it and continues with the next URL.
AbortOnItemFailure == "raised"
AfterItemFailure == "loop"

\* 'if code in self.processed_events' at the head of the item loop (the
\* component scraper has no such check).
NeverProcessed(s, done, code) == FALSE
AlreadyProcessed(s, done, code) == s = "event" /\ code \in done

\* finally: if self.driver: self.driver.quit()
DriverLeftOpen(d) == d
DriverAfterRun(d) == IF d = "open" THEN "quit" ELSE d

InitRun ==
  /\ scraper \in Scrapers
  /\ DiscoverIdle
  /\ FlattenIdle
  /\ ExpandIdle
  /\ FieldsIdle
  /\ rpc = "setup"
  /\ limit \in {NoLimit} \cup 0..MaxLimit
  /\ processed_events \in SUBSET (1..MaxResumed)
  /\ (scraper = "component" => processed_events = {})
  /\ driver = "none"
  /\ item = 0
  /\ all_data = <<>>
  /\ log = {}
  /\ navigated = {}
  /\ attempt_outcomes = <<>>
  /\ exhausted = {}
  /\ collected = <<>>
  /\ fatal = {}
  /\ escaped = "none"

\* self.driver = self.setup_driver()
RunSetup ==
  /\ rpc = "setup"
  /\ \E ok \in BOOLEAN :
       IF ok THEN /\ driver' = "open"
                  /\ rpc' = "collect"
       ELSE /\ driver' = "none"
            /\ rpc' = IF scraper = "event" THEN "raised" ELSE "done"
  /\ escaped' = IF rpc' = "raised" THEN "setup" ELSE "none"
  /\ UNCHANGED <<limit, processed_events, item, all_data, log, navigated,
                 attempt_outcomes, exhausted, collected, fatal, urls>>
  /\ UNCHANGED notRun

\* urls = collect_*_urls(), the limit, and the empty-list return of the
\* component scraper.  Discovery hands over a sorted list of distinct URLs, or
\* an error is raised in it: the wait for the first links times out (no link
\* matches; after 3 attempts tenacity raises RetryError) or a link handle goes
\* stale while the scan reads it.  The event scraper lets the error out of
\* collect_event_urls and, through 'finally', out of run(); collect_item_urls
\* of the component scraper catches it and returns [].
RunCollect ==
  /\ rpc = "collect"
  /\ \E S \in SUBSET (1..MaxUrls), err \in {"none"} \cup DiscoveryErrors :
       /\ (err = "wait_timeout") => (S = {})
       /\ (err = "none" /\ scraper = "event") => (S # {})
       /\ IF err # "none" /\ scraper = "event"
            THEN /\ urls' = <<>>
                 /\ collected' = <<>>
                 /\ driver' = DriverAfterRun(driver)
                 /\ rpc' = "raised"
                 /\ escaped' = err
            ELSE IF err # "none" \/ S = {}
              THEN /\ urls' = <<>>
                   /\ collected' = <<>>
                   /\ driver' = DriverAfterRun(driver)
                   /\ rpc' = "done"
                   /\ escaped' = "none"
              ELSE /\ urls' = Truncate(SortedSeq(S), limit)
                   /\ collected' = SortedSeq(S)
                   /\ driver' = driver
                   /\ rpc' = "loop"
                   /\ escaped' = "none"
  /\ item' = 1
  /\ UNCHANGED <<limit, processed_events, all_data, log, navigated,
                 attempt_outcomes, exhausted, fatal>>
  /\ UNCHANGED notRun

\* Head of 'for i, url in enumerate(urls, 1)': the end of the loop (master
\* files, finally: driver.quit()), the skip of a processed code, or the start
\* of the per-item step.
RunNext ==
  /\ rpc = "loop"
  /\ IF item > Len(urls)
       THEN /\ rpc' = "done"
            /\ driver' = DriverAfterRun(driver)
            /\ UNCHANGED <<item, log>>
       ELSE IF AlreadyProcessed(scraper, processed_events, CodeOf(urls[item]))
         THEN /\ log' = LogItem(log, "skipped", CodeOf(urls[item]))
              /\ item' = item + 1
              /\ UNCHANGED <<rpc, driver>>
         ELSE /\ rpc' = "parse"
              /\ UNCHANGED <<item, log, driver>>
  /\ attempt_outcomes' = <<>>
  /\ UNCHANGED <<limit, processed_events, all_data, navigated, exhausted, collected,
                 fatal, escaped, urls>>
  /\ UNCHANGED notRun

\* One attempt of parse_event_page / parse_item_page on urls[item], and what
\* run() does with its outcome.
RunAttempt ==
  /\ rpc = "parse"
  /\ \E outcome \in AttemptOutcomes(scraper) :
       LET url == urls[item]
           code == CodeOf(url)
           made == Len(attempt_outcomes) + 1
           caught_inside == outcome = "none" \/ (outcome = "nav_error" /\ scraper = "component")
       IN /\ navigated' = navigated \cup {url}
          /\ attempt_outcomes' = Append(attempt_outcomes, outcome)
          /\ fatal' = IF outcome = "nav_error" THEN fatal \cup {url} ELSE fatal
          /\ IF ShouldRetry(scraper, outcome, made)
               THEN UNCHANGED <<rpc, item, all_data, processed_events, log, exhausted>>
               ELSE IF outcome = "result"
                 THEN /\ all_data' = AppendResult(all_data, [url |-> url, code |-> code])
                      /\ processed_events' = IF scraper = "event"
                                               THEN processed_events \cup {code}
                                               ELSE processed_events
                      /\ item' = item + 1
                      /\ rpc' = "loop"
                      /\ UNCHANGED <<log, exhausted>>
                 ELSE /\ log' = LogItem(log, "failed", code)
                      /\ exhausted' = IF outcome = "timeout"
                                        THEN exhausted \cup {url} ELSE exhausted
                      /\ item' = item + 1
                      /\ rpc' = IF caught_inside THEN "loop" ELSE AfterItemFailure
                      /\ UNCHANGED <<all_data, processed_events>>
  /\ UNCHANGED <<limit, driver, collected, escaped, urls>>
  /\ UNCHANGED notRun

NextRun == RunSetup \/ RunCollect \/ RunNext \/ RunAttempt

SpecRun == InitRun /\ [][NextRun]_vars

(***************************************************************************)
(* The fields table of a segment or data type page                         *)
(* (_parse_segment_fields, _parse_datatype_components: the same code)      *)
(*                                                                         *)
(* A <tr> row is [th, cells, text, stale]: whether it holds <th> cells,    *)
(* how many <td> cells it holds, the text of its first cell, and whether   *)
(* reading its cells raises (the handle went stale).                       *)
(***************************************************************************)
FieldTexts == {"", "ACC.1 - Accident Date/Time", "ACC.2"}

FieldRows ==
  { [th |-> TRUE, cells |-> 0, text |-> "", stale |-> FALSE],      \* header row
    [th |-> FALSE, cells |-> 3, text |-> "ACC.2", stale |-> FALSE], \* fewer than 4 cells
    [th |-> FALSE, cells |-> 6, text |-> "ACC.2", stale |-> TRUE] } \* reading it raises
  \cup { [th |-> FALSE, cells |-> 6, text |-> t, stale |-> FALSE] : t \in FieldTexts }

\* The split of "ACC.1 - Accident Date/Time" at " - ": the field name.
FieldName(text) ==
  IF text = "ACC.1 - Accident Date/Time" THEN "ACC.1" ELSE text

\* Whether the row gets as far as building field_info.
RowIsParsed(row) == ~row.th /\ row.cells >= 4 /\ ~row.stale

InitFields ==
  /\ scraper = "component"
  /\ DiscoverIdle
  /\ FlattenIdle
  /\ ExpandIdle
  /\ RunIdle
  /\ table_rows = <<>>
  /\ tpc = "loop"
  /\ fields = <<>>
  /\ field_position = 1

\* One iteration of 'for i, row in enumerate(rows)'.
ParseFieldRow ==
  /\ tpc = "loop"
  /\ Len(table_rows) < MaxFieldRows
  /\ \E row \in FieldRows :
       LET field_info == [position |-> field_position,
                          field_name |-> FieldName(row.text),
                          row |-> Len(table_rows) + 1]
       IN /\ table_rows' = Append(table_rows, row)
          /\ field_position' = IF RowIsParsed(row) THEN field_position + 1
                                                  ELSE field_position
          /\ fields' = IF RowIsParsed(row) /\ field_info.field_name # ""
                         THEN Append(fields, field_info) ELSE fields
  /\ UNCHANGED tpc
  /\ UNCHANGED notFields

\* return fields
ParseFieldsReturn ==
  /\ tpc = "loop"
  /\ tpc' = "done"
  /\ UNCHANGED <<table_rows, fields, field_position>>
  /\ UNCHANGED notFields

NextFields == ParseFieldRow \/ ParseFieldsReturn

SpecFields == InitFields /\ [][NextFields]_vars

(***************************************************************************)
(* Claims about URL discovery                                              *)
(***************************************************************************)
\* The listing is a virtualized container: whatever the scroll offset, fewer
\* than all N items are mounted.
Virtualized ==
  /\ hasViewport
  /\ nItems > 0
  /\ \A p \in 0..Max(0, max_position) : Cardinality(Mounted(p)) < nItems

\* The virtual-scroll path ran to its end.
ScanReturned == dpc = "returned" /\ bottom_passes = 1

\* C1 (as stated): for every virtualized container of N items with M < N
\* mounted at a time, discovery returns exactly the N item URLs.
C1_AllUrlsAnyContainer ==
  (ScanReturned /\ Virtualized) => urls = SortedSeq(1..nItems)

\* C1 (amended): for every virtualized container of N uniform-height items
\* with M < N mounted at a time, discovery returns exactly the N item URLs,
\* provided the scroll step clientHeight div 2 is at least 1 and an item is at
\* most 5 scroll steps tall (so 5 consecutive scan positions never all fail to
\* mount a new item before the end of the scroll range).
C1_AllUrlsWithinStagnation ==
  (ScanReturned /\ Virtualized /\ scroll_step >= 1
     /\ itemHeight <= StagnationLimit * scroll_step)
    => urls = SortedSeq(1..nItems)

\* C1 witness: a virtualized container within the amended premise was scanned
\* over several positions and all its items were returned.
C1_Witness ==
  /\ ScanReturned /\ Virtualized /\ scroll_step >= 1
  /\ itemHeight <= StagnationLimit * scroll_step
  /\ nItems >= 3 /\ iterations >= 4
  /\ Cardinality(Mounted(0)) = 1
  /\ urls = SortedSeq(1..nItems)

\* C9: when no element of the listing page ever matches the link predicate,
\* discovery returns an empty collection and raises no error (the caller
\* decides what an empty result means).
C9_NoLinksReturnsEmpty ==
  (dpc # "idle" /\ nItems = 0) => (dpc # "raised" /\ urls = <<>>)

\* C10: when the page has matching links but no virtualized-viewport marker,
\* discovery runs the whole-document fallback and returns the URLs it
\* collects, in the event scraper and in the component scrapers alike.
C10_FallbackWithoutViewport ==
  (dpc = "returned" /\ nItems > 0 /\ ~hasViewport)
    => (fallback_used /\ urls = SortedSeq(1..nItems))

(***************************************************************************)
(* Claims about the flatten pass                                           *)
(***************************************************************************)
\* The codes of the group headers that enclose row i in the DOM, outermost
\* first: for each level l below the row's level, the label of the last row
\* before i that sits at level l.
LastAtLevel(i, l) ==
  LET J == {j \in 1..(i - 1) : ~IsSkippable(rows[j]) /\ DomLevel(rows[j]) = l}
  IN CHOOSE j \in J : \A k \in J : k <= j
EnclosingPath(i) ==
  [l \in 1..DomLevel(rows[i]) |-> rows[LastAtLevel(i, l - 1)].label]

\* C2: every emitted record carries as group_path the codes of its enclosing
\* group headers, from level 0 to its own level - 1, in order (so [A, B] for
\* the level-2 row of A > B > C, and [] for a header that follows a later
\* level-0 row).
C2_GroupPathIsEnclosingHeaders ==
  \A k \in 1..Len(segments) :
    segments[k].group_path = EnclosingPath(source_rows[k])

FlatTable == \A i \in 1..Len(rows) : ~IsDomHeader(rows[i]) /\ rows[i].pad = 0

\* C4: for a table without nested groups every record has level 0 and an
\* empty group_path, whatever the codes and whichever parsing path.
C4_FlatTableLevelZero ==
  FlatTable =>
    \A k \in 1..Len(segments) :
      segments[k].level = 0 /\ segments[k].group_path = <<>>

(***************************************************************************)
(* Claims about the expansion loop                                         *)
(***************************************************************************)
AllExpandedAtStart == \A c \in Controls : open_at_start[c]

\* C5: on a table whose groups are all expanded already, the expansion loop
\* attempts no activation and leaves every group expanded.
C5_NoActivationWhenExpanded ==
  (epc # "idle" /\ AllExpandedAtStart) => (click_attempts = 0 /\ open = open_at_start)

(***************************************************************************)
(* Claims about run()                                                      *)
(***************************************************************************)
Range(q) == {q[k] : k \in 1..Len(q)}
ResultUrls == {all_data[k].url : k \in 1..Len(all_data)}
IndexOf(q, x) == CHOOSE k \in 1..Len(q) : q[k] = x
RunEnded == rpc \in {"done", "raised"}

\* C6: if the table root of one item never mounts (every wait for it times
\* out), run() still ends normally, every other URL of the list was navigated
\* (or skipped as already processed), the items that gave a result are in the
\* output, the failing item is not, and the failure is logged under the item's
\* code.
C6_FailingItemSkipped ==
  (RunEnded /\ exhausted # {}) =>
    /\ rpc = "done"
    /\ \A u \in exhausted :
         /\ u \notin ResultUrls
         /\ [kind |-> "failed", code |-> CodeOf(u)] \in log
         /\ \A v \in Range(urls) \ {u} :
              /\ v \in navigated \/ [kind |-> "skipped", code |-> CodeOf(v)] \in log
              /\ (v \in navigated /\ [kind |-> "failed", code |-> CodeOf(v)] \notin log)
                   => v \in ResultUrls

\* C6 witness: the first of three items never mounted its table, and the two
\* items after it were harvested.
C6_Witness ==
  /\ rpc = "done"
  /\ urls = <<1, 2, 3>>
  /\ exhausted = {1}
  /\ Len(all_data) = 2
  /\ all_data[1].url = 2 /\ all_data[2].url = 3

\* C7: the per-item step is attempted at most 3 times for one URL, and every
\* attempt but the last ended with a wait timeout: an attempt that ended with
\* a result, with None or with another exception is never followed by another
\* attempt.
C7_RetryOnlyOnTimeout ==
  /\ Len(attempt_outcomes) <= 3
  /\ \A k \in 1..(Len(attempt_outcomes) - 1) : attempt_outcomes[k] = "timeout"
  /\ (scraper = "component" => Len(attempt_outcomes) <= 1)

\* C7 witness: two timeouts, then a third attempt that gave a result.
C7_Witness ==
  /\ attempt_outcomes = <<"timeout", "timeout", "result">>
  /\ Len(all_data) = 1

\* C8: the results are accumulated in URL-list order: if result a precedes
\* result b in all_data then a's URL precedes b's URL in urls.
C8_ResultsInUrlOrder ==
  \A a, b \in 1..Len(all_data) :
    a < b => /\ all_data[a].url \in Range(urls)
             /\ all_data[b].url \in Range(urls)
             /\ IndexOf(urls, all_data[a].url) < IndexOf(urls, all_data[b].url)

\* C8 witness: two results with a failed item between them.
C8_Witness ==
  /\ rpc = "done"
  /\ urls = <<1, 2, 3>>
  /\ Len(all_data) = 2
  /\ all_data[1].url = 1 /\ all_data[2].url = 3
  /\ [kind |-> "failed", code |-> CodeOf(2)] \in log

\* C11: once a navigation raised an unrecoverable (non-timeout) browser error,
\* run() has ended by raising that error, and no item after the failing one
\* was navigated.
C11_NavigationErrorAborts ==
  \A u \in fatal :
    /\ rpc = "raised"
    /\ escaped = "nav_error"
    /\ \A v \in navigated : IndexOf(urls, v) <= IndexOf(urls, u)

\* The transient DOM errors: element not found, wait timeout, stale handle.
TransientDomErrors == {"no_such_element", "wait_timeout", "stale_element"}

\* C12: no element-not-found, wait-timeout or stale-handle error leaves run(),
\* whether it was raised during URL discovery or during per-item processing.
C12_TransientNeverEscapes == escaped \notin TransientDomErrors

\* C13: when run() has finished its item loop, every URL of the (possibly
\* truncated) list has a result in the output or is named, by its code, in a
\* log entry that reports it skipped or failed.
C13_EveryUrlAccounted ==
  (rpc = "done" /\ urls # <<>>) =>
    \A u \in Range(urls) :
      \/ u \in ResultUrls
      \/ [kind |-> "failed", code |-> CodeOf(u)] \in log
      \/ [kind |-> "skipped", code |-> CodeOf(u)] \in log

\* C13 witness: a finished run over three URLs of which the first gave a
\* result, the second was skipped as already processed and the third failed.
C13_Witness ==
  /\ rpc = "done"
  /\ urls = <<1, 2, 3>>
  /\ ResultUrls = {1}
  /\ [kind |-> "skipped", code |-> CodeOf(2)] \in log
  /\ [kind |-> "failed", code |-> CodeOf(3)] \in log

\* C18: for every non-negative limit passed to run(), at most limit item
\* pages are navigated, and they are among the first limit URLs of the
\* discovered list.
C18_LimitBoundsNavigation ==
  (limit # NoLimit) =>
    /\ Cardinality(navigated) <= limit
    /\ navigated \subseteq Range(Prefix(collected, limit))

(***************************************************************************)
(* Termination of the expansion loop                                       *)
(***************************************************************************)
\* C14: the scan/expand loop ends after at most 15 rounds whatever the
\* controls do (a control on which all three strategies raise, a control
\* whose group shows as collapsed again after every activation): a round in
\* progress is one of the first 15, and the loop eventually hands over to the
\* flatten pass.
C14_ExpansionTerminates ==
  /\ [](attempt <= max_attempts /\ (epc = "buttons" => attempt < max_attempts))
  /\ <>(epc = "done")

\* C14 witness: the loop ended after 15 rounds on a table with a control that
\* resists every strategy and a control that collapses again after each click.
C14_Witness ==
  /\ epc = "done"
  /\ attempt = max_attempts
  /\ \E c \in Controls : firstWorking[c] = 0 /\ ~open[c]
  /\ \E c \in Controls : sticky[c] /\ ~open[c]

(***************************************************************************)
(* Frame of the emitted records                                            *)
(***************************************************************************)
\* C15: the group_path of an emitted record is a snapshot: no later step of
\* the flatten pass (a push on the stack, a truncation, further rows) changes
\* the group_path of a record that was already emitted.
C15_GroupPathIsSnapshot ==
  [][\A k \in 1..Len(segments) :
       /\ k <= Len(segments')
       /\ segments'[k].group_path = segments[k].group_path]_vars

\* C15 witness: a record was emitted inside a group, and afterwards the stack
\* was truncated and another group pushed on it; the record still has the path
\* of its own group.
C15_Witness ==
  /\ Len(segments) >= 3
  /\ segments[1].is_group
  /\ segments[2].group_path = <<segments[1].segment_code>>
  /\ group_stack # <<>>
  /\ group_stack[1] # segments[1].segment_code
  /\ stack_ref # 0

(***************************************************************************)
(* The scan loop: iteration bound, stagnation counter, bottom pass         *)
(***************************************************************************)
InScenario ==
  /\ nItems = Scenario.nItems
  /\ itemHeight = Scenario.itemHeight
  /\ clientHeight = Scenario.clientHeight

\* The scan loop was entered (and may have ended).
ScanEntered == hasViewport /\ nItems > 0 /\ dpc \in {"scan", "returned"}

\* C16 (as stated): for a container with scrollHeight S and clientHeight H
\* whose step is H div 2 >= 1 the scan loop performs at most
\* (S - H) div step + 1 iterations before the final pass; in the scenario
\* (20 items, H = 500, S = 5000) at most 19, and exactly the 20 URLs result.
C16_IterationBoundAnyHeights ==
  /\ (ScanEntered /\ scroll_step >= 1) =>
       iterations <= (scroll_height - clientHeight) \div scroll_step + 1
  /\ (ScanReturned /\ InScenario) =>
       (iterations <= 19 /\ urls = SortedSeq(1..20))

\* C16 (amended): the same, for a container whose scrollHeight S is at least
\* its clientHeight H (with S < H the loop performs no iteration, while
\* (S - H) div step + 1 can be negative).
C16_IterationBound ==
  /\ (ScanEntered /\ scroll_step >= 1 /\ scroll_height >= clientHeight) =>
       iterations <= (scroll_height - clientHeight) \div scroll_step + 1
  /\ (ScanReturned /\ InScenario) =>
       (iterations <= 19 /\ urls = SortedSeq(1..20))

\* C16 witness: the scenario was scanned in 19 iterations and all 20 URLs
\* were returned.
C16_Witness ==
  /\ ScanReturned /\ InScenario
  /\ scroll_height = 5000
  /\ iterations = 19
  /\ Len(urls) = 20

\* C19: a scan iteration increments the stagnation counter when it adds no
\* new URL and resets it to 0 when it adds one; no iteration is executed once
\* 5 consecutive iterations added nothing (even with the scroll position
\* still within the scroll range), and the counter stays within 0..5.
C19_StagnationCounter ==
  [][(iterations' = iterations + 1) =>
       /\ no_new_urls_count \in 0..(StagnationLimit - 1)
       /\ no_new_urls_count' =
            IF all_urls' = all_urls THEN no_new_urls_count + 1 ELSE 0
       /\ no_new_urls_count' \in 0..StagnationLimit]_vars

\* C19 witness: the loop was left with 5 consecutive non-productive
\* iterations behind it, after a productive one, and with the scroll position
\* still within the scroll range.
C19_Witness ==
  /\ ScanReturned
  /\ no_new_urls_count = StagnationLimit
  /\ iterations > StagnationLimit
  /\ scroll_position <= max_position

\* C20: however the scan loop ended, exactly one scroll-to-bottom pass is
\* performed after it (none before), and every URL mounted at the bottom is
\* in the returned list.
C20_OneBottomPass ==
  /\ bottom_passes <= 1
  /\ (ScanEntered /\ dpc = "scan") => bottom_passes = 0
  /\ (ScanEntered /\ dpc = "returned") =>
       (bottom_passes = 1 /\ Mounted(scroll_height) \subseteq Range(urls))

\* C20 witness: scrollHeight < clientHeight, so the loop made no iteration and
\* the URLs returned are those the bottom pass found.
C20_Witness ==
  /\ ScanReturned
  /\ scroll_height < clientHeight
  /\ iterations = 0
  /\ nItems >= 2
  /\ Len(urls) = nItems

(***************************************************************************)
(* Claims about the fields table                                           *)
(***************************************************************************)
\* C17: the 'position' values of the k field records returned for a fields
\* table are exactly 1, 2, ..., k in row order, also when rows were skipped
\* (header rows, rows with fewer than 4 cells, rows with an empty field name).
C17_PositionsConsecutive ==
  \A k \in 1..Len(fields) :
    /\ fields[k].position = k
    /\ \A j \in 1..(k - 1) : fields[j].row < fields[k].row

(***************************************************************************)
(* The URL set and the list handed to the orchestrator                     *)
(***************************************************************************)
IsSortedUnique(q) == \A a, b \in 1..Len(q) : a < b => q[a] < q[b]

RowOf(k) == rows[source_rows[k]]

\* C22: at every row the length of the group stack used for the row equals
\* the row's nesting level: every emitted record has as many entries in its
\* group_path as its row is nested deep, and that number is its level.
C22_StackLengthIsLevel ==
  \A k \in 1..Len(segments) :
    /\ Len(segments[k].group_path) = DomLevel(RowOf(k))
    /\ Len(segments[k].group_path) = segments[k].level

\* Record g is a group that is still open at the row of record k: no row
\* after g's row, up to and including k's row, sits at g's level or above it.
StillOpen(g, k) ==
  /\ g < k
  /\ segments[g].is_group
  /\ \A j \in (source_rows[g] + 1)..source_rows[k] :
       IsSkippable(rows[j]) \/ DomLevel(rows[j]) > DomLevel(RowOf(g))

\* C23: a row at a level below the stack length truncates the stack, for
\* itself and for the rows after it: every group named in a record's
\* group_path is a group that no earlier row (nor the record's own row) has
\* exited.
C23_ExitedGroupsLeavePath ==
  \A k \in 1..Len(segments) :
    \A m \in 1..Len(segments[k].group_path) :
      \E g \in 1..(k - 1) :
        /\ segments[g].segment_code = segments[k].group_path[m]
        /\ StillOpen(g, k)

\* C24: every record's level is the left padding of its row in pixels,
\* integer-divided by the 16-pixel indent unit, on the cell path and on the
\* row-text path alike.
C24_LevelIsPaddingOverUnit ==
  \A k \in 1..Len(segments) : segments[k].level = RowOf(k).pad \div 16

C27_NoOpenGroupActivated == activated_open = {}

(***************************************************************************)
(* Termination of the scan, one harvest per code, the driver at exit       *)
(***************************************************************************)
\* C28: the virtual-scroll scan loop terminates for every container geometry
\* over a finite set of item URLs, a scroll step of 0 (clientHeight < 2) and
\* a negative maximum position (scrollHeight < clientHeight) included: it
\* performs at most 5 * (number of items + 1) iterations, and a scan that was
\* entered returns.
C28_ScanTerminates ==
  /\ [](iterations <= StagnationLimit * (nItems + 1))
  /\ (dpc = "scan") ~> (dpc = "returned")

\* C28 witness: a container with scroll step 0 and a non-negative maximum
\* position was scanned: the scroll position never advanced, and the loop
\* ended on the stagnation counter.
C28_Witness ==
  /\ ScanReturned
  /\ scroll_step = 0
  /\ max_position >= 0
  /\ scroll_position = 0
  /\ iterations > StagnationLimit
  /\ no_new_urls_count = StagnationLimit

\* C29: within one run of the trigger-event scraper each code is harvested at
\* most once: the per-item step is never started on a URL whose code is in
\* processed_events (loaded by resume or added by an earlier URL of the run),
\* a code enters processed_events only in the step that appends its result to
\* the output collection, and the collection holds no two results with the
\* same code.
C29_EachCodeHarvestedOnce ==
  /\ [][(scraper = "event") =>
          /\ \A u \in navigated' \ navigated : CodeOf(u) \notin processed_events
          /\ (rpc' = "parse") => CodeOf(urls'[item']) \notin processed_events'
          /\ \A c \in processed_events' \ processed_events :
                /\ Len(all_data') = Len(all_data) + 1
                /\ all_data'[Len(all_data')].code = c]_vars
  /\ [](scraper = "event" =>
          \A i, j \in 1..Len(all_data) :
            all_data[i].code = all_data[j].code => i = j)

\* C29 witness: the run ended; the first two URLs have the same code, the
\* first one was harvested, the second one was skipped without a navigation.
C29_Witness ==
  /\ scraper = "event"
  /\ rpc = "done"
  /\ Len(urls) >= 2
  /\ CodeOf(urls[1]) = CodeOf(urls[2])
  /\ urls[1] \in navigated
  /\ urls[2] \notin navigated
  /\ Len(all_data) >= 1
  /\ all_data[1].url = urls[1]
  /\ [kind |-> "skipped", code |-> CodeOf(urls[2])] \in log

====
